---- MODULE Spec2Model ----
(***************************************************************************)
(* A model of event_bus.bus.EventBus (src/event_bus/bus.py): the two       *)
(* handler mappings, registration, removal, counting and the two dispatch  *)
(* methods, with one caller and the background threads a dispatch starts.  *)
(***************************************************************************)
\* The mappings are defaultdict(set): a key that was never written reads as
\* the empty set, so each is a function on all event names.  running holds
\* the threads of the most recent dispatch only.
\*
\* Spec          one caller; handlers do not call back into the bus.
\* EmitFairSpec  emit alone, with the caller's thread scheduled fairly.
\* EmitOnlySpec  emit_only alone.
\* RegistrySpec  add_event, remove_event and event_count.
\* AfterSpec     calls of a function decorated with emit_after.
\* ReentrantSpec dispatches whose handlers call add_event and remove_event.
\* ConcurrentSpec two threads calling add_event / remove_event at a time,
\*               step by step.
EXTENDS Integers, Sequences, FiniteSets, TLC

\* ------------------------------------------------------------------ inputs

\* Event names passed by the caller.
Events == {"a", "b"}

\* Handler objects.  Handlers are compared by identity inside the sets.
Funcs == {"f1", "f2", "f3"}

\* func.__name__, as a sequence of characters.  f2 and f3 are two distinct
\* callables that share one declared name; the name of f1 is a substring of
\* theirs.
NameOf(f) == IF f = "f1" THEN <<"h">> ELSE <<"h", "2">>

FuncNames == {NameOf(f) : f \in Funcs}

\* Longest list of names handed to emit_only.
MaxNames == 2

\* Most registrations the caller makes at a time.
MaxRegs == 3

\* At most this many calls of add_event and remove_event by the handlers of
\* one dispatch.
MaxBusCalls == 1

\* The positional arguments (*args) a dispatch is called with.
ArgVals == {<<>>, <<1>>}

\* The func_names argument of emit_only: a str, or a list of str.
StrInputs == {[str |-> TRUE, v |-> n] : n \in FuncNames}

ListInputs ==
    {[str |-> FALSE, v |-> l] :
        l \in UNION {[1..k -> FuncNames] : k \in 0..MaxNames}}

NameInputs == StrInputs \cup ListInputs

\* ------------------------------------------------------------------- state

VARIABLES
    events,           \* self._events: event -> set of synchronous handlers
    async_events,     \* self._async_events: event -> set of background handlers
    pc,               \* where the caller is
    cur,              \* the call in progress or most recently finished
    handler_threads,  \* emit: the Thread objects not yet started
    it,               \* the set iterator of the running for loop
    trace,            \* what the current dispatch has done so far, in order
    result,           \* how the most recent call ended
    running,          \* threads of the most recent dispatch that still run
    lastRemoved       \* <<name, event, sole>> of the last successful
                      \* remove_event with no add_event since, else <<>>;
                      \* sole: the event had exactly one handler of that name

vars ==
    <<events, async_events, pc, cur, handler_threads, it, trace, result,
      running, lastRemoved>>

registry == <<events, async_events>>

\* ----------------------------------------------------------------- helpers

\* All the orders in which a set can be enumerated.
RECURSIVE Orders(_)
Orders(S) ==
    IF S = {} THEN {<<>>}
    ELSE UNION {{<<x>> \o s : s \in Orders(S \ {x})} : x \in S}

RECURSIVE SumOver(_, _)
SumOver(counter, keys) ==
    IF keys = {} THEN 0
    ELSE LET k == CHOOSE x \in keys : TRUE
         IN counter[k] + SumOver(counter, keys \ {k})

\* x in container, for a list container and for a str container (substring).
IsSubstring(x, s) ==
    \E i \in 0..(Len(s) - Len(x)) : SubSeq(s, i + 1, i + Len(x)) = x

Contains(container, x) ==
    IF container.str THEN IsSubstring(x, container.v)
    ELSE \E i \in 1..Len(container.v) : container.v[i] = x

\* What the handlers raise and what remove_event raises.
HandlerError(f) == <<"raised", "HandlerError", f>>

EventDoesntExist == <<"raised", "EventDoesntExist">>

Returned == <<"returned">>

Pending == <<"pending">>

\* The iterator of the loop that is running: the set it was made on, what it
\* has yielded, whether that set object is still the one the mapping holds
\* (live), and whether the object has changed size since the loop began.
NoIter == [over |-> {}, visited |-> {}, live |-> TRUE, changed |-> FALSE]

NewIter(s) == [over |-> s, visited |-> {}, live |-> TRUE, changed |-> FALSE]

\* next() on the iterator raises RuntimeError: Set changed size during iteration.
SizeChanged == it.changed

IterationError == <<"raised", "RuntimeError">>

Remaining == it.over \ it.visited

\* The entries of trace: a thread started on f, f called in the caller's
\* thread (with how the call ended), the thread of f ended by an exception.
Launch(f, args) == [k |-> "launch", f |-> f, args |-> args, o |-> "started"]

Call(f, args, o) == [k |-> "call", f |-> f, args |-> args, o |-> o]

Crash(f) == [k |-> "crash", f |-> f, args |-> <<>>, o |-> "raise"]

CallerFree == pc = "idle"

\* ------------------------------------------------------- _subscribed_event_count

\* _subscribed_event_count with = in place of += in its second loop.
event_count_of_overwritten(ev, aev) ==
    SumOver([key \in Events |-> Cardinality(aev[key])], Events)

event_count_of(ev, aev) ==
    LET c1 == [key \in Events |-> Cardinality(ev[key])]
        c2 == [key \in Events |-> c1[key] + Cardinality(aev[key])]
    IN SumOver(c2, Events)

event_count == event_count_of(events, async_events)

\* -------------------------------------------------------------------- Init

Init ==
    /\ events = [e \in Events |-> {}]
    /\ async_events = [e \in Events |-> {}]
    /\ pc = "idle"
    /\ cur = [op |-> "none"]
    /\ handler_threads = <<>>
    /\ it = NoIter
    /\ trace = <<>>
    /\ result = Pending
    /\ running = {}
    /\ lastRemoved = <<>>

\* --------------------------------------------------------------- add_event

\* add_event without the membership test of line 110.
add_event_sets_unchecked(ev, aev, func, event, thread) ==
    IF thread THEN <<ev, [aev EXCEPT ![event] = @ \cup {func}]>>
    ELSE <<[ev EXCEPT ![event] = @ \cup {func}], aev>>

\* add_event testing only the synchronous set for membership.
add_event_sets_sync_test(ev, aev, func, event, thread) ==
    IF func \in ev[event] THEN <<ev, aev>>
    ELSE IF thread THEN <<ev, [aev EXCEPT ![event] = @ \cup {func}]>>
    ELSE <<[ev EXCEPT ![event] = @ \cup {func}], aev>>

\* add_event on mappings whose events all share one set per mode.
add_event_sets_shared(ev, aev, func, event, thread) ==
    IF func \in ev[event] \/ func \in aev[event] THEN <<ev, aev>>
    ELSE IF thread THEN <<ev, [e \in Events |-> aev[e] \cup {func}]>>
    ELSE <<[e \in Events |-> ev[e] \cup {func}], aev>>

\* The two mappings after add_event(func, event, thread).
add_event_sets(ev, aev, func, event, thread) ==
    IF func \in ev[event] \/ func \in aev[event] THEN <<ev, aev>>
    ELSE IF thread THEN <<ev, [aev EXCEPT ![event] = @ \cup {func}]>>
    ELSE <<[ev EXCEPT ![event] = @ \cup {func}], aev>>

add_event(func, event, thread) ==
    /\ CallerFree
    /\ event_count < MaxRegs \/ func \in events[event] \cup async_events[event]
    /\ events' = add_event_sets(events, async_events, func, event, thread)[1]
    /\ async_events' = add_event_sets(events, async_events, func, event, thread)[2]
    /\ cur' = [op |-> "add_event", func |-> func, event |-> event,
               thread |-> thread, ev0 |-> events, aev0 |-> async_events]
    /\ result' = Returned
    /\ pc' = "done"
    /\ trace' = <<>>
    /\ lastRemoved' = <<>>
    /\ UNCHANGED <<handler_threads, it, running>>

\* ------------------------------------------------------------ remove_event

\* The copy left as it was made.
event_funcs_copy_untouched(s, func_name) == s

\* The copy of a handler set with every handler named func_name removed from
\* it, as the loop over the set leaves it.
event_funcs_copy(s, func_name) == s \ {f \in s : NameOf(f) = func_name}

\* removed, as the loop over a handler set leaves it.
removed_from(s, func_name) == \E f \in s : NameOf(f) = func_name

\* remove_event without the second search, in the background set.
remove_event_sets_sync_only(ev, aev, func_name, event) ==
    IF removed_from(ev[event], func_name)
    THEN [raised |-> FALSE,
          ev |-> [ev EXCEPT ![event] = event_funcs_copy(@, func_name)],
          aev |-> aev]
    ELSE [raised |-> TRUE, ev |-> ev, aev |-> aev]

\* remove_event searching and rewriting both sets at once.
remove_event_sets_both(ev, aev, func_name, event) ==
    IF removed_from(ev[event] \cup aev[event], func_name)
    THEN [raised |-> FALSE,
          ev |-> [ev EXCEPT ![event] = event_funcs_copy(@, func_name)],
          aev |-> [aev EXCEPT ![event] = event_funcs_copy(@, func_name)]]
    ELSE [raised |-> TRUE, ev |-> ev, aev |-> aev]

\* remove_event(func_name, event): whether it raises, and the two mappings
\* after it.
remove_event_sets(ev, aev, func_name, event) ==
    IF removed_from(ev[event], func_name)
    THEN [raised |-> FALSE,
          ev |-> [ev EXCEPT ![event] = event_funcs_copy(@, func_name)],
          aev |-> aev]
    ELSE IF removed_from(aev[event], func_name)
    THEN [raised |-> FALSE,
          ev |-> ev,
          aev |-> [aev EXCEPT ![event] = event_funcs_copy(@, func_name)]]
    ELSE [raised |-> TRUE, ev |-> ev, aev |-> aev]

remove_event(func_name, event) ==
    /\ CallerFree
    /\ LET r == remove_event_sets(events, async_events, func_name, event)
       IN /\ events' = r.ev
          /\ async_events' = r.aev
          /\ result' = IF r.raised THEN EventDoesntExist ELSE Returned
          /\ lastRemoved' =
                IF r.raised THEN lastRemoved
                ELSE <<func_name, event,
                       Cardinality({f \in events[event] \cup async_events[event] :
                                       NameOf(f) = func_name}) = 1>>
    /\ cur' = [op |-> "remove_event", func_name |-> func_name, event |-> event,
               ev0 |-> events, aev0 |-> async_events]
    /\ pc' = "done"
    /\ trace' = <<>>
    /\ UNCHANGED <<handler_threads, it, running>>

\* ------------------------------------------- _event_funcs, _async_event_funcs

\* A lookup that installs a fresh empty set under the key it reads.
after_lookup_fresh(d, event) == [d EXCEPT ![event] = {}]

\* A mapping after d[event] was read: defaultdict(set) inserts an empty set
\* under a missing key, and a key that is there keeps its set.
after_lookup(d, event) == [d EXCEPT ![event] = d[event]]

\* A generator that yields the handlers of every event.
event_funcs_any(event) == UNION {events[e] : e \in Events}

\* What the generator over self._events[event] yields, in some order.
event_funcs(event) == events[event]

\* What the generator over self._async_events[event] yields, in some order.
async_event_funcs(event) == async_events[event]

\* -------------------------------------------------------------------- emit

\* A handler that is called either returns or raises.
Outcomes == {"return", "raise"}

\* The call emit(event, *args): the list comprehension builds one Thread per
\* background handler, in the order the set yields them; none is started yet.
emit(event, args) ==
    /\ CallerFree
    /\ \E order \in Orders(async_event_funcs(event)) : handler_threads' = order
    /\ cur' = [op |-> "emit", event |-> event, args |-> args,
               ev0 |-> events, aev0 |-> async_events]
    /\ pc' = "emit_start"
    /\ trace' = <<>>
    /\ result' = Pending
    /\ running' = {}
    /\ it' = NoIter
    /\ async_events' = after_lookup(async_events, event)
    /\ UNCHANGED <<events, lastRemoved>>

\* for h in handler_threads: h.start()
emit_start_enabled == pc = "emit_start" /\ handler_threads # <<>>

emit_start ==
    /\ emit_start_enabled
    /\ running' = running \cup {Head(handler_threads)}
    /\ trace' = Append(trace, Launch(Head(handler_threads), cur.args))
    /\ handler_threads' = Tail(handler_threads)
    /\ UNCHANGED <<events, async_events, pc, cur, it, result, lastRemoved>>

\* The synchronous loop entered while threads are still to be started.
emit_sync_enabled_early == pc = "emit_start"

\* The start loop is over: the loop over self._event_funcs(event) begins.
emit_sync_enabled == pc = "emit_start" /\ handler_threads = <<>>

emit_sync_begin ==
    /\ emit_sync_enabled
    /\ it' = NewIter(event_funcs(cur.event))
    /\ pc' = "emit_sync"
    /\ events' = after_lookup(events, cur.event)
    /\ UNCHANGED <<async_events, cur, handler_threads, trace, result,
                   running, lastRemoved>>

\* The loop going on to the next handler after one has raised.
after_handler_goes_on(o, loop) == loop

\* pc after a synchronous handler ended with outcome o.
after_handler(o, loop) == IF o = "raise" THEN "done" ELSE loop

\* result after a synchronous handler func ended with outcome o.
result_after(o, func) == IF o = "raise" THEN HandlerError(func) ELSE result

\* func(*args, **kwargs) for the next handler the set yields.
emit_sync_call ==
    /\ pc = "emit_sync"
    /\ ~SizeChanged
    /\ \E func \in Remaining, o \in Outcomes :
          /\ trace' = Append(trace, Call(func, cur.args, o))
          /\ it' = [it EXCEPT !.visited = @ \cup {func}]
          /\ pc' = after_handler(o, "emit_sync")
          /\ result' = result_after(o, func)
    /\ UNCHANGED <<events, async_events, cur, handler_threads, running,
                   lastRemoved>>

\* emit joining the threads it started before it returns.
emit_may_return_joined ==
    pc = "emit_sync" /\ ~SizeChanged /\ Remaining = {} /\ running = {}

\* emit may return: nothing here looks at the threads.
emit_may_return == pc = "emit_sync" /\ ~SizeChanged /\ Remaining = {}

\* Where emit returns to: the wrapper of emit_after, or the caller.
emit_returns_to == IF cur.op = "emit_after" THEN "wrapper_return" ELSE "done"

emit_return ==
    /\ emit_may_return
    /\ pc' = emit_returns_to
    /\ result' = Returned
    /\ UNCHANGED <<events, async_events, cur, handler_threads, it, trace,
                   running, lastRemoved>>

\* --------------------------------------------------------------- emit_only

\* emit_only without the isinstance test: a str stays a str.
as_list_skipped(func_names) == func_names

\* if isinstance(func_names, str): func_names = [func_names]
as_list(func_names) ==
    IF func_names.str THEN [str |-> FALSE, v |-> <<func_names.v>>]
    ELSE func_names

\* The call emit_only(event, func_names, *args), up to the first loop.
emit_only(event, func_names, args) ==
    /\ CallerFree
    /\ cur' = [op |-> "emit_only", event |-> event, args |-> args,
               given |-> func_names, func_names |-> as_list(func_names),
               ev0 |-> events, aev0 |-> async_events]
    /\ it' = NewIter(async_event_funcs(event))
    /\ pc' = "only_async"
    /\ trace' = <<>>
    /\ result' = Pending
    /\ running' = {}
    /\ handler_threads' = <<>>
    /\ async_events' = after_lookup(async_events, event)
    /\ UNCHANGED <<events, lastRemoved>>

\* if func.__name__ in func_names
selected(func, func_names) == Contains(func_names, NameOf(func))

\* One turn of the loop over self._async_event_funcs(event).
emit_only_async ==
    /\ pc = "only_async"
    /\ ~SizeChanged
    /\ \E func \in Remaining :
          /\ it' = [it EXCEPT !.visited = @ \cup {func}]
          /\ IF selected(func, cur.func_names)
             THEN /\ running' = running \cup {func}
                  /\ trace' = Append(trace, Launch(func, cur.args))
             ELSE UNCHANGED <<running, trace>>
    /\ UNCHANGED <<events, async_events, pc, cur, handler_threads, result,
                   lastRemoved>>

\* The first loop is over: the loop over self._event_funcs(event) begins.
emit_only_sync_enabled == pc = "only_async" /\ ~SizeChanged /\ Remaining = {}

emit_only_sync_begin ==
    /\ emit_only_sync_enabled
    /\ it' = NewIter(event_funcs(cur.event))
    /\ pc' = "only_sync"
    /\ events' = after_lookup(events, cur.event)
    /\ UNCHANGED <<async_events, cur, handler_threads, trace, result,
                   running, lastRemoved>>

\* One turn of the loop over self._event_funcs(event).
emit_only_sync ==
    /\ pc = "only_sync"
    /\ ~SizeChanged
    /\ \E func \in Remaining :
          /\ it' = [it EXCEPT !.visited = @ \cup {func}]
          /\ IF selected(func, cur.func_names)
             THEN \E o \in Outcomes :
                     /\ trace' = Append(trace, Call(func, cur.args, o))
                     /\ pc' = after_handler(o, "only_sync")
                     /\ result' = result_after(o, func)
             ELSE UNCHANGED <<trace, pc, result>>
    /\ UNCHANGED <<events, async_events, cur, handler_threads, running,
                   lastRemoved>>

emit_only_return ==
    /\ pc = "only_sync"
    /\ ~SizeChanged
    /\ Remaining = {}
    /\ pc' = "done"
    /\ result' = Returned
    /\ UNCHANGED <<events, async_events, cur, handler_threads, it, trace,
                   running, lastRemoved>>

\* ------------------------------------------------------ background threads

Dispatching == pc \in {"emit_start", "emit_sync", "only_async", "only_sync"}

\* The error of a background handler ending the dispatch that started it.
caller_after_crash_propagated(func) ==
    [pc |-> "done", result |-> HandlerError(func),
     handler_threads |-> handler_threads, it |-> it]

\* What the caller's side of the state is after a background handler raised
\* in its own thread: nothing of it changes.
caller_after_crash(func) ==
    [pc |-> pc, result |-> result, handler_threads |-> handler_threads,
     it |-> it]

\* The target of a started thread returns.
thread_return ==
    /\ \E func \in running : running' = running \ {func}
    /\ UNCHANGED <<events, async_events, pc, cur, handler_threads, it, trace,
                   result, lastRemoved>>

\* The target of a started thread raises: the thread ends, the error goes to
\* the thread's excepthook.
thread_raise ==
    /\ \E func \in running :
          /\ running' = running \ {func}
          /\ trace' = IF Dispatching THEN Append(trace, Crash(func)) ELSE trace
          /\ pc' = caller_after_crash(func).pc
          /\ result' = caller_after_crash(func).result
          /\ handler_threads' = caller_after_crash(func).handler_threads
          /\ it' = caller_after_crash(func).it
    /\ UNCHANGED <<events, async_events, cur, lastRemoved>>

\* ------------------------------------------------------------------ caller

\* The caller has seen how its call ended and goes on to its next call.
caller_resumes ==
    /\ pc = "done"
    /\ pc' = "idle"
    /\ cur' = [op |-> "none"]
    /\ handler_threads' = <<>>
    /\ it' = NoIter
    /\ trace' = <<>>
    /\ result' = Pending
    /\ UNCHANGED <<events, async_events, running, lastRemoved>>

\* -------------------------------------------------------------------- Next

Next ==
    \/ \E func \in Funcs, event \in Events, thread \in BOOLEAN :
          add_event(func, event, thread)
    \/ \E func_name \in FuncNames, event \in Events :
          remove_event(func_name, event)
    \/ \E event \in Events, args \in ArgVals : emit(event, args)
    \/ emit_start
    \/ emit_sync_begin
    \/ emit_sync_call
    \/ emit_return
    \/ \E event \in Events, func_names \in NameInputs, args \in ArgVals :
          emit_only(event, func_names, args)
    \/ emit_only_async
    \/ emit_only_sync_begin
    \/ emit_only_sync
    \/ emit_only_return
    \/ thread_return
    \/ thread_raise
    \/ caller_resumes

Spec == Init /\ [][Next]_vars

\* The steps emit takes in the caller's thread.
emit_steps == emit_start \/ emit_sync_begin \/ emit_sync_call \/ emit_return

\* The registries add_event and remove_event can build from the empty one
\* within MaxRegs registrations: the two sets of an event are disjoint.
RegistryInit ==
    /\ events \in [Events -> SUBSET Funcs]
    /\ async_events \in [Events -> SUBSET Funcs]
    /\ \A e \in Events : events[e] \cap async_events[e] = {}
    /\ event_count <= MaxRegs
    /\ pc = "idle"
    /\ cur = [op |-> "none"]
    /\ handler_threads = <<>>
    /\ it = NoIter
    /\ trace = <<>>
    /\ result = Pending
    /\ running = {}
    /\ lastRemoved = <<>>

\* emit alone, called again and again on a registry that stays as it is.
EmitNext ==
    \/ \E event \in Events, args \in ArgVals : emit(event, args)
    \/ emit_start
    \/ emit_sync_begin
    \/ emit_sync_call
    \/ emit_return
    \/ thread_return
    \/ thread_raise
    \/ caller_resumes

\* The caller's thread keeps being scheduled, and a synchronous handler ends;
\* nothing is assumed of the background threads, which may run for ever.
EmitFairSpec == RegistryInit /\ [][EmitNext]_vars /\ WF_vars(emit_steps)

\* emit_only alone, on any registry.
EmitOnlyNext ==
    \/ \E event \in Events, func_names \in NameInputs, args \in ArgVals :
          emit_only(event, func_names, args)
    \/ emit_only_async
    \/ emit_only_sync_begin
    \/ emit_only_sync
    \/ emit_only_return
    \/ thread_return
    \/ thread_raise
    \/ caller_resumes

EmitOnlySpec == RegistryInit /\ [][EmitOnlyNext]_vars

\* ------------------------------------------- handlers that call the bus

\* The entry of trace for a call of add_event or remove_event that a handler
\* of the running dispatch made.
BusCall(op, arg, event) ==
    [k |-> "bus", f |-> op, args |-> <<arg, event>>, o |-> "return"]

BusCalls == Cardinality({i \in DOMAIN trace : trace[i].k = "bus"})

\* A handler of the running dispatch is running or has run: a thread that
\* was started, or a handler the synchronous loop has called. What a
\* synchronous handler does to the bus is seen by the loop when the handler
\* has returned, before the next turn of the loop.
HandlerMayCallBus ==
    /\ Dispatching
    /\ BusCalls < MaxBusCalls
    /\ \/ running # {}
       \/ /\ pc \in {"emit_sync", "only_sync"}
          /\ \E i \in DOMAIN trace : trace[i].k = "call"

\* Which of the two sets of cur.event the running loop iterates.
Iterated ==
    IF pc = "only_async" THEN "async"
    ELSE IF pc \in {"emit_sync", "only_sync"} THEN "sync"
    ELSE "none"

\* set.add on the set object the running loop iterates.
it_after_add == [it EXCEPT !.changed = TRUE]

\* A handler calls add_event(func, event, thread): the set is changed in place.
handler_add_event(func, event, thread) ==
    /\ HandlerMayCallBus
    /\ event_count < MaxRegs \/ func \in events[event] \cup async_events[event]
    /\ events' = add_event_sets(events, async_events, func, event, thread)[1]
    /\ async_events' = add_event_sets(events, async_events, func, event, thread)[2]
    /\ it' = IF /\ func \notin events[event] \cup async_events[event]
                /\ event = cur.event
                /\ it.live
                /\ Iterated = (IF thread THEN "async" ELSE "sync")
             THEN it_after_add
             ELSE it
    /\ trace' = Append(trace, BusCall("add_event", func, event))
    /\ lastRemoved' = <<>>
    /\ UNCHANGED <<pc, cur, handler_threads, result, running>>

\* remove_event taking the handler out of the set object itself.
it_after_rebind_in_place == [it EXCEPT !.changed = TRUE]

\* self._events[event] = event_funcs_copy (and the same for _async_events):
\* the mapping holds a new set, the running loop keeps the old one.
it_after_rebind == [it EXCEPT !.live = FALSE]

\* Which entry remove_event assigns: _events[event] when the name was in the
\* synchronous set, _async_events[event] when it was not.
rebinds(mode, func_name, event) ==
    IF removed_from(events[event], func_name) THEN mode = "sync"
    ELSE mode = "async"

\* A handler calls remove_event(func_name, event) and it does not raise.
handler_remove_event(func_name, event) ==
    /\ HandlerMayCallBus
    /\ LET r == remove_event_sets(events, async_events, func_name, event)
       IN /\ ~r.raised
          /\ events' = r.ev
          /\ async_events' = r.aev
    /\ it' = IF event = cur.event /\ rebinds(Iterated, func_name, event)
             THEN it_after_rebind
             ELSE it
    /\ trace' = Append(trace, BusCall("remove_event", func_name, event))
    /\ lastRemoved' =
          <<func_name, event,
            Cardinality({f \in events[event] \cup async_events[event] :
                            NameOf(f) = func_name}) = 1>>
    /\ UNCHANGED <<pc, cur, handler_threads, result, running>>

\* The next turn of a loop over a set that has changed size: RuntimeError
\* leaves the generator, the loop and emit or emit_only.
iteration_fails ==
    /\ pc \in {"emit_sync", "only_async", "only_sync"}
    /\ SizeChanged
    /\ pc' = "done"
    /\ result' = IterationError
    /\ UNCHANGED <<events, async_events, cur, handler_threads, it, trace,
                   running, lastRemoved>>

\* Dispatches whose handlers may call add_event and remove_event for the
\* event that is dispatched.
ReentrantNext ==
    \/ \E event \in Events : emit(event, <<>>)
    \/ emit_start
    \/ emit_sync_begin
    \/ emit_sync_call
    \/ emit_return
    \/ \E event \in Events, func_names \in StrInputs :
          emit_only(event, func_names, <<>>)
    \/ emit_only_async
    \/ emit_only_sync_begin
    \/ emit_only_sync
    \/ emit_only_return
    \/ \E func \in Funcs, thread \in BOOLEAN :
          handler_add_event(func, cur.event, thread)
    \/ \E func_name \in FuncNames : handler_remove_event(func_name, cur.event)
    \/ iteration_fails
    \/ thread_return
    \/ caller_resumes

ReentrantSpec == RegistryInit /\ [][ReentrantNext]_vars

\* ------------------------------------------------------ two calls at a time

\* Two threads of the program, each making one call on the bus.
Callers == {1, 2}

\* The locals of a call add_event(func, event, thread) and where it is.
AddFrame(func, event, thread) ==
    [op |-> "add_event", func |-> func, event |-> event, thread |-> thread,
     at |-> "test_sync", result |-> Pending]

\* The locals of a call remove_event(func_name, event) and where it is: mode
\* is the mapping the code is working on.
RemoveFrame(func_name, event) ==
    [op |-> "remove_event", func_name |-> func_name, event |-> event,
     mode |-> "sync", at |-> "copy", removed |-> FALSE,
     event_funcs_copy |-> {}, it |-> NoIter, result |-> Pending]

\* set.remove of an element the set does not hold.
KeyError == <<"raised", "KeyError">>

\* self._events[event] or self._async_events[event], as it is now.
Entry(mode, event) ==
    IF mode = "sync" THEN events[event] ELSE async_events[event]

\* The caller starts two threads that both call add_event for one event.
concurrent_adds(event, func, thread, func2, thread2) ==
    /\ CallerFree
    /\ cur' = [op |-> "concurrent",
               calls |-> <<AddFrame(func, event, thread),
                           AddFrame(func2, event, thread2)>>,
               ev0 |-> events, aev0 |-> async_events]
    /\ pc' = "concurrent"
    /\ trace' = <<>>
    /\ result' = Pending
    /\ UNCHANGED <<events, async_events, handler_threads, it, running,
                   lastRemoved>>

\* The caller starts two threads: one calls add_event, the other
\* remove_event, for one event.
concurrent_add_remove(event, func, thread, func_name) ==
    /\ CallerFree
    /\ cur' = [op |-> "concurrent",
               calls |-> <<AddFrame(func, event, thread),
                           RemoveFrame(func_name, event)>>,
               ev0 |-> events, aev0 |-> async_events]
    /\ pc' = "concurrent"
    /\ trace' = <<>>
    /\ result' = Pending
    /\ UNCHANGED <<events, async_events, handler_threads, it, running,
                   lastRemoved>>

\* Caller t is in the call with locals c, at the step named at.
At(t, op, at) ==
    /\ pc = "concurrent"
    /\ cur.calls[t].op = op
    /\ cur.calls[t].at = at

\* One of the two __contains__ tests of add_event, on the set as it is now.
add_test(c, set) ==
    IF c.func \in set THEN [c EXCEPT !.at = "done", !.result = Returned]
    ELSE IF c.at = "test_sync" THEN [c EXCEPT !.at = "test_async"]
    ELSE [c EXCEPT !.at = "insert"]

\* self._events[event].__contains__(func)
add_event_test_sync(t) ==
    /\ At(t, "add_event", "test_sync")
    /\ cur' = [cur EXCEPT
                  !.calls[t] = add_test(@, events[cur.calls[t].event])]
    /\ UNCHANGED <<events, async_events, pc, handler_threads, it, trace,
                   result, running, lastRemoved>>

\* self._async_events[event].__contains__(func)
add_event_test_async(t) ==
    /\ At(t, "add_event", "test_async")
    /\ cur' = [cur EXCEPT
                  !.calls[t] = add_test(@, async_events[cur.calls[t].event])]
    /\ UNCHANGED <<events, async_events, pc, handler_threads, it, trace,
                   result, running, lastRemoved>>

\* self._async_events[event].add(func) or self._events[event].add(func)
add_event_insert(t) ==
    /\ At(t, "add_event", "insert")
    /\ LET c == cur.calls[t]
       IN /\ IF c.thread
             THEN /\ async_events' = [async_events EXCEPT ![c.event] = @ \cup {c.func}]
                  /\ UNCHANGED events
             ELSE /\ events' = [events EXCEPT ![c.event] = @ \cup {c.func}]
                  /\ UNCHANGED async_events
          /\ cur' = [cur EXCEPT !.calls[t].at = "done",
                                !.calls[t].result = Returned]
    /\ UNCHANGED <<pc, handler_threads, it, trace, result, running,
                   lastRemoved>>

\* event_funcs_copy = self._events[event].copy(), or the same for
\* self._async_events[event] after the first loop removed nothing.
remove_event_copy(t) ==
    /\ At(t, "remove_event", "copy")
    /\ cur' = [cur EXCEPT
                  !.calls[t].event_funcs_copy =
                      Entry(cur.calls[t].mode, cur.calls[t].event),
                  !.calls[t].at = "iter"]
    /\ UNCHANGED <<events, async_events, pc, handler_threads, it, trace,
                   result, running, lastRemoved>>

\* The generator reaches its for statement: an iterator on the set itself.
remove_event_iter(t) ==
    /\ At(t, "remove_event", "iter")
    /\ cur' = [cur EXCEPT
                  !.calls[t].it =
                      NewIter(Entry(cur.calls[t].mode, cur.calls[t].event)),
                  !.calls[t].at = "loop"]
    /\ UNCHANGED <<events, async_events, pc, handler_threads, it, trace,
                   result, running, lastRemoved>>

\* The locals after the loop body for func: a handler of the name is taken
\* out of the copy, which raises KeyError when the copy does not hold it.
after_body(c, func) ==
    LET seen == [c EXCEPT !.it.visited = @ \cup {func}]
    IN IF NameOf(func) # c.func_name THEN seen
       ELSE IF func \notin c.event_funcs_copy
       THEN [seen EXCEPT !.at = "done", !.result = KeyError]
       ELSE [seen EXCEPT !.event_funcs_copy = @ \ {func}, !.removed = TRUE]

\* The locals after a loop ended: line 202 and line 208 test removed.
after_loop(c) ==
    IF c.removed THEN [c EXCEPT !.at = "assign"]
    ELSE IF c.mode = "sync" THEN [c EXCEPT !.mode = "async", !.at = "copy"]
    ELSE [c EXCEPT !.at = "done", !.result = EventDoesntExist]

\* One turn of a loop of remove_event: the iterator first tests that the set
\* has the size it had when the iterator was made.
remove_event_next(t) ==
    /\ At(t, "remove_event", "loop")
    /\ LET c == cur.calls[t]
       IN IF Entry(c.mode, c.event) # c.it.over
          THEN cur' = [cur EXCEPT !.calls[t].at = "done",
                                  !.calls[t].result = IterationError]
          ELSE IF c.it.over \ c.it.visited = {}
          THEN cur' = [cur EXCEPT !.calls[t] = after_loop(c)]
          ELSE \E func \in c.it.over \ c.it.visited :
                  cur' = [cur EXCEPT !.calls[t] = after_body(c, func)]
    /\ UNCHANGED <<events, async_events, pc, handler_threads, it, trace,
                   result, running, lastRemoved>>

\* self._events[event] = event_funcs_copy, or the same for _async_events.
remove_event_assign(t) ==
    /\ At(t, "remove_event", "assign")
    /\ LET c == cur.calls[t]
       IN /\ IF c.mode = "sync"
             THEN /\ events' = [events EXCEPT ![c.event] = c.event_funcs_copy]
                  /\ UNCHANGED async_events
             ELSE /\ async_events' =
                        [async_events EXCEPT ![c.event] = c.event_funcs_copy]
                  /\ UNCHANGED events
          /\ cur' = [cur EXCEPT !.calls[t].at = "done",
                                !.calls[t].result = Returned]
    /\ UNCHANGED <<pc, handler_threads, it, trace, result, running,
                   lastRemoved>>

\* Both threads have ended and the caller has joined them.
concurrent_join ==
    /\ pc = "concurrent"
    /\ \A t \in Callers : cur.calls[t].at = "done"
    /\ pc' = "done"
    /\ result' = Returned
    /\ UNCHANGED <<events, async_events, cur, handler_threads, it, trace,
                   running, lastRemoved>>

\* Two calls at a time on any registry, in every interleaving of their steps.
ConcurrentNext ==
    \/ \E event \in Events, func \in Funcs, thread \in BOOLEAN,
          func2 \in Funcs, thread2 \in BOOLEAN :
          concurrent_adds(event, func, thread, func2, thread2)
    \/ \E event \in Events, func \in Funcs, thread \in BOOLEAN,
          func_name \in FuncNames :
          concurrent_add_remove(event, func, thread, func_name)
    \/ \E t \in Callers : add_event_test_sync(t)
    \/ \E t \in Callers : add_event_test_async(t)
    \/ \E t \in Callers : add_event_insert(t)
    \/ \E t \in Callers : remove_event_copy(t)
    \/ \E t \in Callers : remove_event_iter(t)
    \/ \E t \in Callers : remove_event_next(t)
    \/ \E t \in Callers : remove_event_assign(t)
    \/ concurrent_join

ConcurrentSpec == RegistryInit /\ [][ConcurrentNext]_vars

\* -------------------------------------------------------------- emit_after

\* What the function wrapped by emit_after returns, and what it raises.
ReturnVals == {"None", "r"}

WrappedError == <<"raised", "WrappedError">>

\* The entry of trace for the call of the wrapped function.
Ran(args, o) == [k |-> "wrapped", f |-> "wrapped", args |-> args, o |-> o]

\* The wrapper going on to self.emit(event) whatever func did.
after_func_always_emits(o) == "wrapper_emit"

\* pc after returned = func(*args, **kwargs) ended with outcome o.
after_func(o) == IF o = "raise" THEN "done" ELSE "wrapper_emit"

\* The arguments of self.emit(event) in the wrapper.
wrapper_emit_args(args) == <<>>

\* A call wrapper(*args) of a function decorated with emit_after(event):
\* returned = func(*args, **kwargs)
wrapper_call(event, args) ==
    /\ CallerFree
    /\ \E o \in Outcomes, v \in ReturnVals :
          /\ trace' = <<Ran(args, o)>>
          /\ pc' = after_func(o)
          /\ result' = IF o = "raise" THEN WrappedError ELSE Pending
          /\ cur' = [op |-> "emit_after", event |-> event,
                     args |-> wrapper_emit_args(args), fargs |-> args,
                     returned |-> IF o = "raise" THEN "unbound" ELSE v,
                     ev0 |-> events, aev0 |-> async_events]
    /\ handler_threads' = <<>>
    /\ it' = NoIter
    /\ UNCHANGED <<events, async_events, running, lastRemoved>>

\* self.emit(event) in the wrapper: the body of emit up to its first loop.
wrapper_emit ==
    /\ pc = "wrapper_emit"
    /\ \E order \in Orders(async_event_funcs(cur.event)) :
          handler_threads' = order
    /\ pc' = "emit_start"
    /\ running' = {}
    /\ async_events' = after_lookup(async_events, cur.event)
    /\ UNCHANGED <<events, cur, it, trace, result, lastRemoved>>

\* return returned
wrapper_return ==
    /\ pc = "wrapper_return"
    /\ pc' = "done"
    /\ result' = <<"returned", cur.returned>>
    /\ UNCHANGED <<events, async_events, cur, handler_threads, it, trace,
                   running, lastRemoved>>

\* Calls of a wrapped function, on any registry.
AfterNext ==
    \/ \E event \in Events, args \in ArgVals : wrapper_call(event, args)
    \/ wrapper_emit
    \/ emit_start
    \/ emit_sync_begin
    \/ emit_sync_call
    \/ emit_return
    \/ wrapper_return
    \/ thread_return
    \/ thread_raise
    \/ caller_resumes

AfterSpec == RegistryInit /\ [][AfterNext]_vars

\* ------------------------------------------------------------- event_count

\* The caller reads bus.event_count.
get_event_count ==
    /\ CallerFree
    /\ cur' = [op |-> "event_count",
               value |-> event_count,
               ev0 |-> events, aev0 |-> async_events]
    /\ result' = Returned
    /\ pc' = "done"
    /\ trace' = <<>>
    /\ UNCHANGED <<events, async_events, handler_threads, it, running,
                   lastRemoved>>

\* Registrations, removals and counting, with no dispatch.
RegistryNext ==
    \/ \E func \in Funcs, event \in Events, thread \in BOOLEAN :
          add_event(func, event, thread)
    \/ \E func_name \in FuncNames, event \in Events :
          remove_event(func_name, event)
    \/ get_event_count
    \/ caller_resumes

RegistrySpec == Init /\ [][RegistryNext]_vars

\* ------------------------------------------------- what the claims speak of

\* How many times the current dispatch has done k ("launch", "call") on f.
Times(k, f) ==
    Cardinality({i \in DOMAIN trace : trace[i].k = k /\ trace[i].f = f})

\* Every handler the current dispatch has invoked got the arguments of the call.
SameArgs ==
    \A i \in DOMAIN trace :
        trace[i].k \in {"launch", "call"} => trace[i].args = cur.args

\* The current or last call is a dispatch.
IsDispatch == cur.op \in {"emit", "emit_only"}

\* The names a func_names argument stands for.
GivenNames(given) ==
    IF given.str THEN {given.v} ELSE {given.v[i] : i \in 1..Len(given.v)}

\* The handlers the current dispatch is to invoke, from the registry as it
\* was when the call was made.
WantedOf(set0) ==
    IF cur.op = "emit" THEN set0[cur.event]
    ELSE {f \in set0[cur.event] : NameOf(f) \in GivenNames(cur.given)}

WantedAsync == WantedOf(cur.aev0)

WantedSync == WantedOf(cur.ev0)

\* The registry is as it was when the current call was made.
RegistryAsBefore == events = cur.ev0 /\ async_events = cur.aev0

count_before == event_count_of(cur.ev0, cur.aev0)

\* The handlers of event e, in either mode, whose declared name is n.
Named(ev, aev, e, n) == {f \in ev[e] \cup aev[e] : NameOf(f) = n}

OtherEvents(e) == Events \ {e}

\* --------------------------------------------------------------------- C1

\* C1: an emit(e, args) that returned normally has started a thread exactly
\* once on each handler that was in the background set of e, has called
\* exactly once each handler that was in the synchronous set of e, each with
\* args, and has invoked no other handler.
C1_EmitInvokesEachOnce ==
    (pc = "done" /\ cur.op = "emit" /\ result = Returned) =>
        /\ \A f \in Funcs :
              /\ Times("launch", f) = IF f \in cur.aev0[cur.event] THEN 1 ELSE 0
              /\ Times("call", f) = IF f \in cur.ev0[cur.event] THEN 1 ELSE 0
        /\ SameArgs

\* An emit with arguments returned on an event with a handler of each mode,
\* while another handler is registered under the other event only.
C1_Witness ==
    /\ pc = "done" /\ cur.op = "emit" /\ result = Returned
    /\ cur.args # <<>>
    /\ cur.aev0[cur.event] # {} /\ cur.ev0[cur.event] # {}
    /\ \E f \in Funcs, e \in OtherEvents(cur.event) :
          /\ f \in events[e] \cup async_events[e]
          /\ f \notin events[cur.event] \cup async_events[cur.event]

\* --------------------------------------------------------------------- C2

\* C2: add_event(h, e, thread) changes nothing when h was already in either
\* set of e, whatever thread is; when h was in neither, it puts h in the set
\* thread chooses and in no other, and event_count grows by exactly 1.
C2_AddTwiceIsNoOp ==
    (pc = "done" /\ cur.op = "add_event") =>
        IF cur.func \in cur.ev0[cur.event] \cup cur.aev0[cur.event]
        THEN RegistryAsBefore /\ event_count = count_before
        ELSE /\ event_count = count_before + 1
             /\ cur.func \in IF cur.thread THEN async_events[cur.event]
                             ELSE events[cur.event]
             /\ cur.func \notin IF cur.thread THEN events[cur.event]
                                ELSE async_events[cur.event]

\* The second registration of a handler, with the other flag than the first.
C2_Witness ==
    /\ pc = "done" /\ cur.op = "add_event"
    /\ cur.thread /\ cur.func \in cur.ev0[cur.event]

\* --------------------------------------------------------------------- C3

\* C3: for every event the synchronous set and the background set are
\* disjoint.
C3_SetsDisjoint ==
    \A e \in Events : events[e] \cap async_events[e] = {}

\* A handler registered as background was registered again as synchronous
\* for the same event, while it is synchronous under the other event.
C3_Witness ==
    /\ pc = "done" /\ cur.op = "add_event"
    /\ ~cur.thread /\ cur.func \in cur.aev0[cur.event]
    /\ \E e \in OtherEvents(cur.event) : cur.func \in events[e]

\* --------------------------------------------------------------------- C4

\* C4: in a dispatch, once a synchronous handler has been called, every
\* background handler the call selects has had its thread started, and no
\* thread is started after a call.
C4_LaunchBeforeSync ==
    (IsDispatch /\ \E i \in DOMAIN trace : trace[i].k = "call") =>
        /\ \A f \in WantedAsync : Times("launch", f) = 1
        /\ \A i, j \in DOMAIN trace :
              trace[i].k = "call" /\ trace[j].k = "launch" => j < i

\* An emit_only has called a synchronous handler while a thread it started
\* is still running.
C4_Witness ==
    /\ cur.op = "emit_only"
    /\ \E i \in DOMAIN trace : trace[i].k = "call"
    /\ \E f \in running : Times("launch", f) = 1

\* --------------------------------------------------------------------- C5

\* C5: an emit that has been called returns (normally or with the error of a
\* synchronous handler) whatever the threads it started do, also when one of
\* them never ends.
C5_EmitDoesNotWait ==
    (cur.op = "emit" /\ pc \in {"emit_start", "emit_sync"}) ~> (pc = "done")

\* emit has returned while a thread it started is still running.
C5_Witness ==
    /\ pc = "done" /\ cur.op = "emit" /\ result = Returned
    /\ \E f \in running : Times("launch", f) = 1
    /\ cur.ev0[cur.event] # {}

\* --------------------------------------------------------------------- C6

\* The positions of trace at which a synchronous handler raised.
RaisedAt == {i \in DOMAIN trace : trace[i].k = "call" /\ trace[i].o = "raise"}

\* C6: once a synchronous handler has raised in emit(e), emit has ended with
\* that handler's error, no handler is called after it, every background
\* handler of e has had its thread started before it, and the registry is as
\* it was when emit was called.
C6_SyncErrorAborts ==
    \A i \in RaisedAt :
        cur.op = "emit" =>
            /\ pc = "done"
            /\ result = HandlerError(trace[i].f)
            /\ \A j \in DOMAIN trace : trace[j].k = "call" => j <= i
            /\ \A f \in cur.aev0[cur.event] :
                  \E j \in 1..(i - 1) : trace[j] = Launch(f, cur.args)
            /\ RegistryAsBefore

\* emit ended with the error of a synchronous handler after it started a
\* thread, and another synchronous handler of the event was never called.
C6_Witness ==
    /\ pc = "done" /\ cur.op = "emit" /\ RaisedAt # {}
    /\ cur.aev0[cur.event] # {}
    /\ \E g \in cur.ev0[cur.event] : Times("call", g) = 0

\* --------------------------------------------------------------------- C7

CrashedAt == {i \in DOMAIN trace : trace[i].k = "crash"}

\* C7: in a dispatch during which a background handler raised, the caller
\* gets an error only from a synchronous handler that raised; the dispatch
\* ends with every selected background handler started once, and, unless a
\* synchronous handler raised, with every selected synchronous handler called
\* once and a normal return.
C7_BackgroundErrorIsolated ==
    (IsDispatch /\ CrashedAt # {}) =>
        /\ result \in {Pending, Returned}
              \cup {HandlerError(trace[i].f) : i \in RaisedAt}
        /\ pc = "done" => \A f \in WantedAsync : Times("launch", f) = 1
        /\ (pc = "done" /\ RaisedAt = {}) =>
              /\ result = Returned
              /\ \A f \in WantedSync : Times("call", f) = 1

\* A dispatch returned normally although a background handler had raised
\* before another thread was started and before a synchronous handler ran.
C7_Witness ==
    /\ pc = "done" /\ IsDispatch /\ result = Returned
    /\ \E i \in CrashedAt :
          /\ \E j \in DOMAIN trace : j > i /\ trace[j].k = "launch"
          /\ \E j \in DOMAIN trace : j > i /\ trace[j].k = "call"

\* --------------------------------------------------------------------- C8

\* remove_event has just ended, and the event had a handler of that name.
RemovedExisting ==
    /\ pc = "done" /\ cur.op = "remove_event"
    /\ Named(cur.ev0, cur.aev0, cur.event, cur.func_name) # {}

\* The handlers remove_event takes out: those of that name in the synchronous
\* set, or, when there is none, those of that name in the background set.
Gone ==
    LET s == {f \in cur.ev0[cur.event] : NameOf(f) = cur.func_name}
    IN IF s # {} THEN s
       ELSE {f \in cur.aev0[cur.event] : NameOf(f) = cur.func_name}

\* The current dispatch has invoked no handler named n.
NoneInvokedNamed(n) ==
    \A i \in DOMAIN trace :
        trace[i].k \in {"launch", "call"} => NameOf(trace[i].f) # n

\* C8 as claimed: whenever the event has a handler named n, also when several
\* share the name, remove_event(n, e) returns normally, event_count is 1 less
\* and no later emit(e) invokes a handler named n.
C8_AsClaimed ==
    /\ RemovedExisting =>
          result = Returned /\ event_count = count_before - 1
    /\ (cur.op = "emit" /\ lastRemoved # <<>>) =>
          (lastRemoved[2] = cur.event => NoneInvokedNamed(lastRemoved[1]))

\* C8, amended: when the event has a handler named n, remove_event(n, e)
\* returns normally and takes out every handler of that name from the
\* synchronous set, or from the background set when no synchronous one has
\* the name; event_count drops by their number.  When exactly one handler of
\* the event has the name, event_count is 1 less, no handler of that name is
\* left and no later emit(e) invokes one.
C8_RemoveByName ==
    /\ RemovedExisting =>
          /\ result = Returned
          /\ event_count = count_before - Cardinality(Gone)
          /\ events[cur.event] \cup async_events[cur.event] =
                (cur.ev0[cur.event] \cup cur.aev0[cur.event]) \ Gone
          /\ Cardinality(Named(cur.ev0, cur.aev0, cur.event, cur.func_name)) = 1
                => /\ event_count = count_before - 1
                   /\ Named(events, async_events, cur.event, cur.func_name) = {}
    /\ (cur.op = "emit" /\ lastRemoved # <<>>) =>
          ((lastRemoved[2] = cur.event /\ lastRemoved[3])
              => NoneInvokedNamed(lastRemoved[1]))

\* An emit that invoked a handler has returned on an event from which the
\* only handler of some name was removed before.
C8_Witness ==
    /\ pc = "done" /\ cur.op = "emit" /\ result = Returned
    /\ trace # <<>>
    /\ lastRemoved # <<>>
    /\ lastRemoved[2] = cur.event /\ lastRemoved[3]

\* --------------------------------------------------------------------- C9

\* C9: remove_event(n, e) raises EventDoesntExist exactly when neither set of
\* e held a handler named n, and then both mappings and event_count are as
\* they were.
C9_RemoveMissingRaises ==
    (pc = "done" /\ cur.op = "remove_event") =>
        /\ result \in {Returned, EventDoesntExist}
        /\ result = EventDoesntExist
              <=> Named(cur.ev0, cur.aev0, cur.event, cur.func_name) = {}
        /\ result = EventDoesntExist =>
              RegistryAsBefore /\ event_count = count_before

\* remove_event raised for a name that a handler of the other event bears.
C9_Witness ==
    /\ pc = "done" /\ cur.op = "remove_event" /\ result = EventDoesntExist
    /\ \E e \in OtherEvents(cur.event) :
          Named(events, async_events, e, cur.func_name) # {}

\* -------------------------------------------------------------------- C10

\* C10: emit_only(e, names, args) invokes no handler but those of e whose
\* declared name is among names (the one name, when names is a str), each at
\* most once and with args; when it returns normally it has started a thread
\* on each such background handler and called each such synchronous handler.
C10_EmitOnlyFilters ==
    cur.op = "emit_only" =>
        /\ \A f \in Funcs :
              /\ Times("launch", f) <= IF f \in WantedAsync THEN 1 ELSE 0
              /\ Times("call", f) <= IF f \in WantedSync THEN 1 ELSE 0
        /\ SameArgs
        /\ (pc = "done" /\ result = Returned) =>
              /\ \A f \in WantedAsync : Times("launch", f) = 1
              /\ \A f \in WantedSync : Times("call", f) = 1

\* emit_only(e, "h2") returned on an event that has the handler named "h" and
\* a handler named "h2", having invoked the latter.
C10_Witness ==
    /\ pc = "done" /\ cur.op = "emit_only" /\ result = Returned
    /\ cur.given = [str |-> TRUE, v |-> <<"h", "2">>]
    /\ "f1" \in cur.ev0[cur.event] \cup cur.aev0[cur.event]
    /\ trace # <<>>

\* -------------------------------------------------------------------- C12

\* C12: add_event(h, e, ...) and remove_event(n, e) leave both sets of every
\* event other than e as they were; a handler registered under another event
\* and not under e is added to e all the same, event_count growing by 1.
C12_OtherEventsUntouched ==
    (pc = "done" /\ cur.op \in {"add_event", "remove_event"}) =>
        /\ \A e \in OtherEvents(cur.event) :
              events[e] = cur.ev0[e] /\ async_events[e] = cur.aev0[e]
        /\ (/\ cur.op = "add_event"
            /\ cur.func \notin cur.ev0[cur.event] \cup cur.aev0[cur.event])
              => /\ event_count = count_before + 1
                 /\ cur.func \in events[cur.event] \cup async_events[cur.event]

\* A handler registered under both events was removed from one of them and
\* is still registered under the other.
C12_Witness ==
    /\ pc = "done" /\ cur.op = "remove_event" /\ result = Returned
    /\ \E f \in Gone, e \in OtherEvents(cur.event) :
          /\ f \in events[e] \cup async_events[e]
          /\ f \notin events[cur.event] \cup async_events[cur.event]

\* -------------------------------------------------------------------- C17

\* The handlers of that name in a set of the event, before remove_event.
NamedIn(set0) == {f \in set0[cur.event] : NameOf(f) = cur.func_name}

\* C17: when a synchronous handler of e is named n, remove_event(n, e) leaves
\* the background set of e as it was, also when it holds a handler named n,
\* and no synchronous handler named n is left; when no synchronous handler
\* of e is named n, it leaves the synchronous set as it was, and no
\* background handler named n is left.
C17_SyncSetFirst ==
    (pc = "done" /\ cur.op = "remove_event") =>
        IF NamedIn(cur.ev0) # {}
        THEN /\ async_events = cur.aev0
             /\ events[cur.event] = cur.ev0[cur.event] \ NamedIn(cur.ev0)
        ELSE /\ events = cur.ev0
             /\ async_events[cur.event] =
                   cur.aev0[cur.event] \ NamedIn(cur.aev0)

\* remove_event ended on an event that had a handler of that name in each
\* of its two sets.
C17_Witness ==
    /\ pc = "done" /\ cur.op = "remove_event"
    /\ NamedIn(cur.ev0) # {} /\ NamedIn(cur.aev0) # {}

\* -------------------------------------------------------------------- C13

\* C13: while and after emit or emit_only runs, with handlers that do not
\* call add_event or remove_event, every event has the handlers it had when
\* the call was made and event_count is the same; on an event with no handler
\* the call invokes nothing, does not raise, and the event still has none.
C13_DispatchKeepsRegistry ==
    IsDispatch =>
        /\ RegistryAsBefore
        /\ event_count = count_before
        /\ cur.ev0[cur.event] \cup cur.aev0[cur.event] = {} =>
              /\ trace = <<>>
              /\ result \in {Pending, Returned}
              /\ pc = "done" => result = Returned
              /\ events[cur.event] \cup async_events[cur.event] = {}

\* A dispatch has ended on an event whose handlers were all removed, while
\* the other event has a handler.
C13_Witness ==
    /\ pc = "done" /\ IsDispatch
    /\ cur.ev0[cur.event] \cup cur.aev0[cur.event] = {}
    /\ lastRemoved # <<>>
    /\ lastRemoved[2] = cur.event
    /\ \E e \in OtherEvents(cur.event) : events[e] \cup async_events[e] # {}

\* -------------------------------------------------------------------- C16

\* The registrations: one per event, mode and handler.
Registrations ==
    {<<e, "sync", f>> : e \in Events, f \in Funcs}
        \cup {<<e, "async", f>> : e \in Events, f \in Funcs}

Registered(r) ==
    IF r[2] = "sync" THEN r[3] \in events[r[1]] ELSE r[3] \in async_events[r[1]]

\* C16: reading event_count returns normally the number of registrations,
\* over all events and both modes, and leaves both mappings as they were.
C16_CountIsSumOfSizes ==
    (pc = "done" /\ cur.op = "event_count") =>
        /\ cur.value = Cardinality({r \in Registrations : Registered(r)})
        /\ result = Returned
        /\ RegistryAsBefore

\* event_count was read while an event has handlers of both modes and the
\* other event has a handler too.
C16_Witness ==
    /\ pc = "done" /\ cur.op = "event_count"
    /\ cur.value = MaxRegs
    /\ \E e \in Events :
          /\ events[e] # {} /\ async_events[e] # {}
          /\ \E e2 \in OtherEvents(e) : events[e2] \cup async_events[e2] # {}

\* -------------------------------------------------------------------- C11

\* C11: in a call of a function wrapped by emit_after(event) the function runs
\* first, once, with the arguments of the call. If it raises, no subscriber is
\* invoked and the call ends with its exception. If it returns, emit(event)
\* follows, passing no arguments to the subscribers, and when that emit
\* returns every subscriber was invoked once and the call returns what the
\* function returned; the call ends in no other way than with the function's
\* exception, the function's result, or the error of a synchronous subscriber.
C11_EmitAfter ==
    (cur.op = "emit_after") =>
        /\ trace # <<>>
        /\ trace[1] \in {Ran(cur.fargs, o) : o \in Outcomes}
        /\ \A i \in DOMAIN trace : i > 1 =>
              /\ trace[i].k \in {"launch", "call", "crash"}
              /\ trace[i].args = <<>>
              /\ trace[i].f \in cur.ev0[cur.event] \cup cur.aev0[cur.event]
        /\ trace[1].o = "raise" =>
              /\ Len(trace) = 1
              /\ pc = "done"
              /\ result = WrappedError
        /\ (trace[1].o = "return" /\ pc = "done") =>
              /\ \A f \in cur.aev0[cur.event] : Times("launch", f) = 1
              /\ \/ /\ result = <<"returned", cur.returned>>
                    /\ \A f \in cur.ev0[cur.event] :
                          Times("call", f) = 1
                 \/ \E f \in cur.ev0[cur.event] :
                       /\ result = HandlerError(f)
                       /\ trace[Len(trace)] = Call(f, <<>>, "raise")

\* A wrapped function called with an argument has returned a value, the emit
\* that followed has invoked a background and a synchronous subscriber, and
\* the call has returned.
C11_Witness ==
    /\ cur.op = "emit_after" /\ pc = "done"
    /\ cur.fargs = <<1>>
    /\ result = <<"returned", "r">>
    /\ \E f \in Funcs, g \in Funcs :
          Times("launch", f) = 1 /\ Times("call", g) = 1

\* -------------------------------------------------------------------- C14

\* C14: a call of emit or emit_only that does not return normally ends with
\* the error of a synchronous handler it called, whatever the handlers of the
\* dispatch did with add_event and remove_event meanwhile.
C14_AsClaimed ==
    (IsDispatch /\ pc = "done" /\ result # Returned) =>
        \E f \in Funcs :
            /\ result = HandlerError(f)
            /\ \E i \in DOMAIN trace : trace[i] = Call(f, cur.args, "raise")

\* -------------------------------------------------------------------- C15

\* C15: when a call of emit or emit_only has ended, the handlers it started a
\* thread on are those that were in the background set of the event when the
\* call was made (for emit_only those of them the names select), each once,
\* whatever was registered for the event after the call began.
C15_AsClaimed ==
    (IsDispatch /\ pc = "done") =>
        \A f \in Funcs :
            Times("launch", f) = IF f \in WantedAsync THEN 1 ELSE 0

\* -------------------------------------------------------------------- C20

\* No handler of the current dispatch has called add_event.
NoAddByHandler ==
    \A i \in DOMAIN trace : trace[i].k = "bus" => trace[i].f = "remove_event"

\* C20: removals made by the handlers of an emit do not change what that emit
\* does: with no registration made meanwhile the loop never fails on its
\* iterator, and an emit that returns has called exactly once each handler
\* that was in the synchronous set when the synchronous loop began, those
\* removed meanwhile included. An emit made after the last removal of a name
\* from its event calls no handler of that name.
C20_RemovalLeavesDispatch ==
    (cur.op = "emit") =>
        /\ NoAddByHandler => result # IterationError
        /\ (pc = "done" /\ result = Returned) =>
              \A f \in Funcs :
                  Times("call", f) = IF f \in it.over THEN 1 ELSE 0
        /\ (/\ BusCalls = 0
            /\ lastRemoved # <<>>
            /\ lastRemoved[2] = cur.event) =>
              \A f \in Funcs :
                  NameOf(f) = lastRemoved[1] => Times("call", f) = 0

\* An emit has returned in which a handler removed a name from the event of
\* the emit and a synchronous handler of that name was called afterwards; the
\* handler is no longer registered for the event.
C20_Witness ==
    /\ cur.op = "emit" /\ pc = "done" /\ result = Returned
    /\ \E i \in DOMAIN trace, j \in DOMAIN trace :
          /\ i < j
          /\ trace[i].k = "bus" /\ trace[i].f = "remove_event"
          /\ trace[i].args[2] = cur.event
          /\ trace[j].k = "call"
          /\ NameOf(trace[j].f) = trace[i].args[1]
          /\ trace[j].f \notin events[cur.event]

\* -------------------------------------------------------------------- C18

\* C18: when add_event(h2, e) and remove_event(n, e) ran at the same time,
\* for a name n that is not the name of h2 and that a handler of e had, and
\* both returned normally, then h2 is registered for e and no handler of the
\* set the removal worked on has the name n.
C18_AsClaimed ==
    (/\ pc = "done" /\ cur.op = "concurrent"
     /\ cur.calls[2].op = "remove_event"
     /\ NameOf(cur.calls[1].func) # cur.calls[2].func_name
     /\ \A t \in Callers : cur.calls[t].result = Returned) =>
        /\ cur.calls[1].func \in
              events[cur.calls[1].event] \cup async_events[cur.calls[1].event]
        /\ \A h1 \in Entry(cur.calls[2].mode, cur.calls[2].event) :
              NameOf(h1) # cur.calls[2].func_name

\* -------------------------------------------------------------------- C19

\* C19: when add_event(h, e, thread=True) and add_event(h, e, thread=False)
\* ran at the same time and both have returned, h is in exactly one of the
\* two sets of e.
C19_AsClaimed ==
    (/\ pc = "done" /\ cur.op = "concurrent"
     /\ cur.calls[2].op = "add_event"
     /\ cur.calls[1].func = cur.calls[2].func
     /\ cur.calls[1].thread # cur.calls[2].thread
     /\ \A t \in Callers : cur.calls[t].result = Returned) =>
        LET h == cur.calls[1].func
            e == cur.calls[1].event
        IN (h \in events[e]) # (h \in async_events[e])

====
